---- MODULE Spec2Model ----
(***************************************************************************)
(* A model of scripts/render_resume.py: the five template filters as       *)
(* operators over character sequences, and the pipeline                    *)
(* main -> render_resume -> load_all_configs / get_template / render /     *)
(* write as a state machine over the data directory, the file system and   *)
(* the console.                                                            *)
(*                                                                         *)
(* Text is a sequence of one-character strings, so that substitution,      *)
(* searching, splitting and joining are computed as the code computes them.*)
(***************************************************************************)
EXTENDS Integers, Sequences, FiniteSets, TLC

VARIABLES
    call,        \* the filter call last made: its name, arguments and result
    pc,          \* the pipeline's position
    argv,        \* the --output flag as given on the command line
    files,       \* the data directory: what each config file holds
    fs,          \* the file system at the candidate output paths
    output_file, \* render_resume's output_file parameter
    context,     \* the rendering context built by load_all_configs
    stdout,      \* the console messages printed so far
    attempted,   \* the stages the run has started
    success,     \* render_resume's return value
    exitStatus   \* the process exit status

pipeVars == <<pc, argv, files, fs, output_file, context, stdout, attempted,
              success, exitStatus>>
vars == <<call, pc, argv, files, fs, output_file, context, stdout, attempted,
          success, exitStatus>>

----------------------------------------------------------------------------
(* Bounds of the model                                                      *)

MaxEscLen == 3
MaxPieces == 3
MaxTechs == 3
MaxMonthLen == 2

(* no filter has been called yet *)
NoCall == [fn |-> "none"]

(* All sequences over alphabet of length at most n *)
StrsUpTo(alphabet, n) == UNION {[1..k -> alphabet] : k \in 0..n}

RECURSIVE Concat(_)
Concat(ss) == IF ss = <<>> THEN <<>> ELSE Head(ss) \o Concat(Tail(ss))

----------------------------------------------------------------------------
(* latex_escape                                                            *)

replacements ==
    << << "\\", <<"\\","t","e","x","t","b","a","c","k","s","l","a","s","h","{","}">> >>,
       << "&",  <<"\\","&">> >>,
       << "%",  <<"\\","%">> >>,
       << "$",  <<"\\","$">> >>,
       << "#",  <<"\\","#">> >>,
       << "_",  <<"\\","_">> >>,
       << "{",  <<"\\","{">> >>,
       << "}",  <<"\\","}">> >>,
       << "~",  <<"\\","t","e","x","t","a","s","c","i","i","t","i","l","d","e","{","}">> >>,
       << "^",  <<"\\","t","e","x","t","a","s","c","i","i","c","i","r","c","u","m","{","}">> >>,
       << "<",  <<"\\","t","e","x","t","l","e","s","s","{","}">> >>,
       << ">",  <<"\\","t","e","x","t","g","r","e","a","t","e","r","{","}">> >> >>

(* str.replace(char, escaped) for a one-character char *)
RECURSIVE StrReplace(_, _, _)
StrReplace(s, char, escaped) ==
    IF s = <<>> THEN <<>>
    ELSE (IF Head(s) = char THEN escaped ELSE <<Head(s)>>)
         \o StrReplace(Tail(s), char, escaped)

(* the loop "for char, escaped in replacements: result = result.replace(..)" *)
RECURSIVE ApplyReplacements(_, _)
ApplyReplacements(result, reps) ==
    IF reps = <<>> THEN result
    ELSE ApplyReplacements(StrReplace(result, Head(reps)[1], Head(reps)[2]), Tail(reps))

latex_escape(text) ==
    IF text = <<>> THEN <<>> ELSE ApplyReplacements(text, replacements)

EscAlphabet == {replacements[i][1] : i \in DOMAIN replacements} \cup {"a"}

CallLatexEscape ==
    /\ call = NoCall
    /\ \E text \in StrsUpTo(EscAlphabet, MaxEscLen) :
          call' = [fn |-> "latex_escape", text |-> text, ret |-> latex_escape(text)]
    /\ UNCHANGED pipeVars

----------------------------------------------------------------------------
(* github_username, linkedin_username                                       *)

(* the literal prefixes of the two patterns, r"github\.com/" and            *)
(* r"linkedin\.com/in/" (the escaped dot matches a dot only)                *)
GithubAnchor == <<"g","i","t","h","u","b",".","c","o","m","/">>
LinkedinAnchor == <<"l","i","n","k","e","d","i","n",".","c","o","m","/","i","n","/">>

(* the literal lit matches s at position i *)
LiteralAt(s, i, lit) ==
    /\ i + Len(lit) - 1 <= Len(s)
    /\ \A j \in 1..Len(lit) : s[i + j - 1] = lit[j]

(* the greedy group ([^/]+) from position k: the longest run without "/" *)
RECURSIVE NonSlashRun(_, _)
NonSlashRun(s, k) ==
    IF k > Len(s) \/ s[k] = "/" THEN <<>>
    ELSE <<s[k]>> \o NonSlashRun(s, k + 1)

(* the pattern with a starred group: an empty segment matches too *)
MatchStartsEmptyGroup(s, lit) == {i \in 1..Len(s) : LiteralAt(s, i, lit)}

(* the positions where lit followed by ([^/]+) matches: the group needs at  *)
(* least one character                                                      *)
MatchStarts(s, lit) ==
    {i \in 1..Len(s) : LiteralAt(s, i, lit) /\ NonSlashRun(s, i + Len(lit)) # <<>>}

(* re.search(lit ([^/]+), url): the leftmost match's group(1), or no match  *)
ReSearch(lit, url) ==
    LET starts == MatchStarts(url, lit)
    IN  IF starts = {} THEN [matched |-> FALSE, group |-> <<>>]
        ELSE LET i == CHOOSE m \in starts : \A n \in starts : m <= n
             IN  [matched |-> TRUE, group |-> NonSlashRun(url, i + Len(lit))]

github_username(url) ==
    IF url = <<>> THEN <<>>
    ELSE LET match == ReSearch(GithubAnchor, url)
         IN  IF match.matched THEN match.group ELSE url

linkedin_username(url) ==
    IF url = <<>> THEN <<>>
    ELSE LET match == ReSearch(LinkedinAnchor, url)
         IN  IF match.matched THEN match.group ELSE url

(* the pieces the input URLs are assembled from *)
UrlPieces ==
    { <<"g","i","t","h","u","b",".","c","o","m","/">>, <<"l","i","n","k","e","d","i","n",".","c","o","m","/","i","n","/">>, <<"g","i","t","h","u","b","X","c","o","m","/">>, <<"/">>, <<"a","l">>, <<"i","n","/">>, <<"h","t","t","p","s",":","/","/">> }

Urls == {Concat(ps) : ps \in StrsUpTo(UrlPieces, MaxPieces)}

CallGithubUsername ==
    /\ call = NoCall
    /\ \E url \in Urls :
          call' = [fn |-> "github_username", url |-> url, ret |-> github_username(url)]
    /\ UNCHANGED pipeVars

CallLinkedinUsername ==
    /\ call = NoCall
    /\ \E url \in Urls :
          call' = [fn |-> "linkedin_username", url |-> url, ret |-> linkedin_username(url)]
    /\ UNCHANGED pipeVars

----------------------------------------------------------------------------
(* join_tech                                                                *)

NoneVal == [t |-> "none"]
StrVal(s) == [t |-> "str", s |-> s]

(* Python truthiness of None and of a str *)
Truthy(v) == v.t = "str" /\ v.s # <<>>

(* one pass of the loop: tech.get("name", "") for a dict, str(tech) else *)
TechName(tech) ==
    IF tech.t = "dict"
    THEN (IF tech.has_name THEN tech.name ELSE StrVal(<<>>))
    ELSE StrVal(tech.s)

(* a filter that drops None only and keeps empty names *)
FilterNoneOnly(names) == SelectSeq(names, LAMBDA v : v.t = "str")

(* filter(None, names) *)
FilterNone(names) == SelectSeq(names, Truthy)

(* sep.join(items) *)
RECURSIVE StrJoin(_, _)
StrJoin(sep, items) ==
    IF items = <<>> THEN <<>>
    ELSE IF Len(items) = 1 THEN Head(items).s
    ELSE Head(items).s \o sep \o StrJoin(sep, Tail(items))

join_tech(technologies) ==
    IF technologies.t = "none" \/ technologies.items = <<>> THEN <<>>
    ELSE LET names == [i \in DOMAIN technologies.items |-> TechName(technologies.items[i])]
         IN  StrJoin(<<",", " ">>, FilterNone(names))

TechNames == { <<>>, <<"G","o">>, <<"C">> }

(* the elements of a technology list: plain strings, and records whose name *)
(* is absent, null or a string                                              *)
TechElems ==
    {[t |-> "str", s |-> n] : n \in TechNames}
    \cup {[t |-> "dict", has_name |-> FALSE, name |-> NoneVal]}
    \cup {[t |-> "dict", has_name |-> TRUE, name |-> NoneVal]}
    \cup {[t |-> "dict", has_name |-> TRUE, name |-> StrVal(n)] : n \in TechNames}

TechLists ==
    {NoneVal} \cup {[t |-> "list", items |-> l] : l \in StrsUpTo(TechElems, MaxTechs)}

CallJoinTech ==
    /\ call = NoCall
    /\ \E technologies \in TechLists :
          call' = [fn |-> "join_tech", technologies |-> technologies,
                   ret |-> join_tech(technologies)]
    /\ UNCHANGED pipeVars

----------------------------------------------------------------------------
(* format_duration                                                          *)

months ==
    << <<"J","a","n">>, <<"F","e","b">>, <<"M","a","r">>, <<"A","p","r">>, <<"M","a","y">>, <<"J","u","n">>, <<"J","u","l">>, <<"A","u","g">>, <<"S","e","p">>, <<"O","c","t">>, <<"N","o","v">>, <<"D","e","c">> >>

Digits == <<"0","1","2","3","4","5","6","7","8","9">>
IsDigit(c) == \E i \in DOMAIN Digits : Digits[i] = c
DigitVal(c) == (CHOOSE i \in DOMAIN Digits : Digits[i] = c) - 1

(* date_str.split("-") *)
RECURSIVE SplitFrom(_, _, _)
SplitFrom(s, k, cur) ==
    IF k > Len(s) THEN <<cur>>
    ELSE IF s[k] = "-" THEN <<cur>> \o SplitFrom(s, k + 1, <<>>)
    ELSE SplitFrom(s, k + 1, Append(cur, s[k]))

Split(s) == SplitFrom(s, 1, <<>>)

(* int(text) for text without sign, blank or underscore: the decimal value  *)
(* of a non-empty all-digit text, ValueError otherwise                      *)
RECURSIVE DecimalValue(_, _)
DecimalValue(s, acc) ==
    IF s = <<>> THEN acc ELSE DecimalValue(Tail(s), 10 * acc + DigitVal(Head(s)))

PyInt(s) ==
    IF s # <<>> /\ \A i \in DOMAIN s : IsDigit(s[i])
    THEN [err |-> "none", val |-> DecimalValue(s, 0)]
    ELSE [err |-> "ValueError", val |-> 0]

(* f"{year}" for an int year >= 0 *)
RECURSIVE IntToStr(_)
IntToStr(n) ==
    IF n < 10 THEN <<Digits[n + 1]>>
    ELSE IntToStr(n \div 10) \o <<Digits[(n % 10) + 1]>>

Raised(e) == [err |-> e, val |-> <<>>]
Returned(v) == [err |-> "none", val |-> v]

(* months[idx] with Python's list indexing: a negative index counts from    *)
(* the end, an index outside -12..11 raises IndexError                      *)
MonthAt(idx) ==
    IF idx >= 0 /\ idx < Len(months) THEN Returned(months[idx + 1])
    ELSE IF idx < 0 /\ idx >= -Len(months) THEN Returned(months[idx + Len(months) + 1])
    ELSE Raised("IndexError")

format_date(date_str) ==
    LET parts == Split(date_str)
        year  == PyInt(parts[1])
    IN  IF year.err # "none" THEN Raised(year.err)
        ELSE IF Len(parts) < 2 THEN Raised("IndexError")
        ELSE LET month == PyInt(parts[2])
             IN  IF month.err # "none" THEN Raised(month.err)
                 ELSE LET name == MonthAt(month.val - 1)
                      IN  IF name.err # "none" THEN name
                          ELSE Returned(name.val \o <<" ">> \o IntToStr(year.val))

format_duration(start_date, end_date) ==
    LET start == format_date(start_date)
    IN  IF start.err # "none" THEN start
        ELSE LET end == IF Truthy(end_date) THEN format_date(end_date.s)
                        ELSE Returned(<<"P","r","e","s","e","n","t">>)
             IN  IF end.err # "none" THEN end
                 ELSE Returned(start.val \o <<" ","-","-"," ">> \o end.val)

YearStrs == { <<"2","0","2","2">>, <<"1","9","9","9">>, <<"2","0","x","2">> }
MonthAlphabet == {"0", "1", "2", "3", "5", "x"}

(* a year alone, or a year, "-" and a text of at most MaxMonthLen characters *)
DateStrs ==
    YearStrs \cup
    {y \o <<"-">> \o m : y \in YearStrs, m \in StrsUpTo(MonthAlphabet, MaxMonthLen)}

EndDates == {NoneVal, StrVal(<<>>)} \cup {StrVal(d) : d \in DateStrs}

CallFormatDuration ==
    /\ call = NoCall
    /\ \E start_date \in DateStrs, end_date \in EndDates :
          call' = [fn |-> "format_duration", start_date |-> start_date,
                   end_date |-> end_date,
                   ret |-> format_duration(start_date, end_date)]
    /\ UNCHANGED pipeVars

----------------------------------------------------------------------------
(* JSON values, as far as the pipeline looks at them                        *)

(* A JSON object is the set of its <<key, value>> members, each value one   *)
(* of the literals in Tokens; any other JSON value is one of those literals *)
Tokens == {"[]", "[x]", "null"}

JObj(members) == [kind |-> "obj", doc |-> members, val |-> ""]
JVal(token) == [kind |-> "val", doc |-> {}, val |-> token]
AbsentFile == [kind |-> "absent", doc |-> {}, val |-> ""]
MalformedFile == [kind |-> "malformed", doc |-> {}, val |-> ""]

HasKey(members, k) == \E m \in members : m[1] = k
Get(members, k) == (CHOOSE m \in members : m[1] = k)[2]

(* "not v" is true of these: {}, [], null *)
Falsy(v) ==
    \/ v.kind = "obj" /\ v.doc = {}
    \/ v.kind = "val" /\ v.val \in {"[]", "null"}

----------------------------------------------------------------------------
(* load_json_file, load_all_configs                                         *)

config_files ==
    << "profile", "experience_data", "projects_data", "skills_data",
       "education_data", "contact", "seo" >>

ConfigKeys == {config_files[i] : i \in DOMAIN config_files}

(* a loader that treats invalid JSON like a missing file: a message and {} *)
load_json_file_swallow(file) ==
    IF file.kind \in {"absent", "malformed"}
    THEN [err |-> "none", warned |-> TRUE, val |-> JObj({})]
    ELSE [err |-> "none", warned |-> FALSE, val |-> file]

(* json.load on an existing file gives its value, or JSONDecodeError and    *)
(* sys.exit(1); a file that is not there gives the warning and {}           *)
load_json_file(file) ==
    IF file.kind = "absent" THEN [err |-> "none", warned |-> TRUE, val |-> JObj({})]
    ELSE IF file.kind = "malformed" THEN [err |-> "json", warned |-> FALSE, val |-> JObj({})]
    ELSE [err |-> "none", warned |-> FALSE, val |-> file]

(* the loop over config_files: files that exist are loaded in order, and    *)
(* the first invalid one ends the process                                   *)
RECURSIVE LoadLoop(_, _, _)
LoadLoop(dir, i, ctx) ==
    IF i > Len(config_files) THEN [err |-> "none", context |-> ctx]
    ELSE LET key == config_files[i]
         IN  IF dir[key].kind = "absent" THEN LoadLoop(dir, i + 1, ctx)
             ELSE LET loaded == load_json_file(dir[key])
                  IN  IF loaded.err # "none" THEN [err |-> loaded.err, context |-> ctx]
                      ELSE LoadLoop(dir, i + 1, ctx \cup {<<key, loaded.val>>})

(* flattening rules that read skills_data.skills instead of .categories *)
promotions_skills_key ==
    << [source |-> "experience_data", subkey |-> "experience", target |-> "experience"],
       [source |-> "projects_data",   subkey |-> "projects",   target |-> "projects"],
       [source |-> "skills_data",     subkey |-> "skills",     target |-> "skills"],
       [source |-> "education_data",  subkey |-> "education",  target |-> "education"] >>

(* the four flattening rules, in the order of the code *)
promotions ==
    << [source |-> "experience_data", subkey |-> "experience", target |-> "experience"],
       [source |-> "projects_data",   subkey |-> "projects",   target |-> "projects"],
       [source |-> "skills_data",     subkey |-> "categories", target |-> "skills"],
       [source |-> "education_data",  subkey |-> "education",  target |-> "education"] >>

(* subkey in value: membership in an object's keys; no element of the list  *)
(* literals is a key; null is not iterable                                  *)
Contains(value, subkey) ==
    IF value.kind = "obj" THEN [err |-> "none", val |-> HasKey(value.doc, subkey)]
    ELSE IF value.val = "null" THEN [err |-> "TypeError", val |-> FALSE]
    ELSE [err |-> "none", val |-> FALSE]

RECURSIVE Promote(_, _)
Promote(ctx, rules) ==
    IF rules = <<>> THEN [err |-> "none", context |-> ctx]
    ELSE LET rule == Head(rules)
         IN  IF ~HasKey(ctx, rule.source) THEN Promote(ctx, Tail(rules))
             ELSE LET has == Contains(Get(ctx, rule.source), rule.subkey)
                  IN  IF has.err # "none" THEN [err |-> has.err, context |-> ctx]
                      ELSE IF ~has.val THEN Promote(ctx, Tail(rules))
                      ELSE Promote(
                             {m \in ctx : m[1] # rule.target} \cup
                               {<<rule.target, JVal(Get(Get(ctx, rule.source).doc, rule.subkey))>>},
                             Tail(rules))

load_all_configs(data_dir) ==
    LET loaded == LoadLoop(data_dir, 1, {})
    IN  IF loaded.err # "none" THEN loaded ELSE Promote(loaded.context, promotions)

----------------------------------------------------------------------------
(* main, render_resume                                                      *)

Dirs == {"root", "elsewhere"}
Names == {"resume.tex", "out.tex"}
Paths == [dir : Dirs, name : Names]

PROJECT_ROOT == "root"
OUTPUT_FILE == "resume.tex"

(* the --output flag: omitted, or a path *)
NoFlag == [given |-> FALSE, path |-> [dir |-> "", name |-> ""]]
Flag(p) == [given |-> TRUE, path |-> p]

(* argparse's default for --output is str(PROJECT_ROOT / OUTPUT_FILE) *)
ArgsOutput(flag) ==
    IF flag.given THEN flag.path ELSE [dir |-> PROJECT_ROOT, name |-> OUTPUT_FILE]

(* output_file=output_path.name *)
PathName(path) == path.name

(* output_path = PROJECT_ROOT / output_file *)
OutputPath(file) == [dir |-> PROJECT_ROOT, name |-> file]

required_keys == <<"profile", "experience", "education">>

(* a validation that tests presence only, not emptiness *)
MissingAbsentOnly(ctx) == SelectSeq(required_keys, LAMBDA k : ~HasKey(ctx, k))

(* [k for k in required_keys if k not in context or not context[k]] *)
Missing(ctx) ==
    SelectSeq(required_keys, LAMBDA k : ~HasKey(ctx, k) \/ Falsy(Get(ctx, k)))

Msg(kind, arg) == [kind |-> kind, arg |-> arg]

Main ==
    /\ pc = "main"
    /\ output_file' = PathName(ArgsOutput(argv))
    /\ pc' = "load_configs"
    /\ UNCHANGED <<call, argv, files, fs, context, stdout, attempted, success, exitStatus>>

(* print, then context = load_all_configs(data_dir); an invalid file ends   *)
(* the process in load_json_file, a TypeError ends it uncaught              *)
LoadConfigs ==
    /\ pc = "load_configs"
    /\ attempted' = attempted \cup {"load_configs"}
    /\ LET loaded == load_all_configs(files)
       IN  \/ /\ loaded.err = "none"
              /\ context' = loaded.context
              /\ stdout' = Append(stdout, Msg("loading_configs", <<>>))
              /\ pc' = "validate"
              /\ UNCHANGED exitStatus
           \/ /\ loaded.err = "json"
              /\ stdout' = stdout \o <<Msg("loading_configs", <<>>), Msg("error_json", <<>>)>>
              /\ pc' = "done"
              /\ exitStatus' = 1
              /\ UNCHANGED context
           \/ /\ loaded.err = "TypeError"
              /\ stdout' = stdout \o <<Msg("loading_configs", <<>>), Msg("traceback", <<>>)>>
              /\ pc' = "done"
              /\ exitStatus' = 1
              /\ UNCHANGED context
    /\ UNCHANGED <<call, argv, files, fs, output_file, success>>

Validate ==
    /\ pc = "validate"
    /\ attempted' = attempted \cup {"validate"}
    /\ LET missing == Missing(context)
       IN  \/ /\ missing # <<>>
              /\ stdout' = Append(stdout, Msg("error_missing", missing))
              /\ success' = FALSE
              /\ pc' = "returned"
           \/ /\ missing = <<>>
              /\ stdout' = stdout \o <<Msg("loaded_configs", <<>>), Msg("loading_template", <<>>)>>
              /\ pc' = "get_template"
              /\ UNCHANGED success
    /\ UNCHANGED <<call, argv, files, fs, output_file, context, exitStatus>>

(* env.get_template(template_file): the template, or TemplateError *)
GetTemplate ==
    /\ pc = "get_template"
    /\ attempted' = attempted \cup {"get_template"}
    /\ \/ /\ pc' = "render"
          /\ UNCHANGED <<stdout, success>>
       \/ /\ stdout' = Append(stdout, Msg("error_loading_template", <<>>))
          /\ success' = FALSE
          /\ pc' = "returned"
    /\ UNCHANGED <<call, argv, files, fs, output_file, context, exitStatus>>

(* template.render with the context: the text, TemplateError, or an exception of  *)
(* another class out of a filter, which nothing catches                     *)
Render ==
    /\ pc = "render"
    /\ attempted' = attempted \cup {"render"}
    /\ \/ /\ stdout' = Append(stdout, Msg("writing_output", <<>>))
          /\ pc' = "write"
          /\ UNCHANGED <<success, exitStatus>>
       \/ /\ stdout' = Append(stdout, Msg("error_rendering_template", <<>>))
          /\ success' = FALSE
          /\ pc' = "returned"
          /\ UNCHANGED exitStatus
       \/ /\ stdout' = Append(stdout, Msg("traceback", <<>>))
          /\ pc' = "done"
          /\ exitStatus' = 1
          /\ UNCHANGED success
    /\ UNCHANGED <<call, argv, files, fs, output_file, context>>

(* open(output_path, "w") creates or truncates the file, or raises IOError  *)
(* and leaves it alone; f.write(rendered) and the close write the text, or  *)
(* raise IOError with none or part of it written                            *)
WriteOutput ==
    /\ pc = "write"
    /\ attempted' = attempted \cup {"write"}
    /\ LET output_path == OutputPath(output_file)
       IN  \/ /\ fs' = [fs EXCEPT ![output_path] = "rendered"]
              /\ stdout' = Append(stdout, Msg("success", <<>>))
              /\ success' = TRUE
           \/ /\ UNCHANGED fs
              /\ stdout' = Append(stdout, Msg("error_writing", <<>>))
              /\ success' = FALSE
           \/ /\ \E left \in {"empty", "partial"} :
                    fs' = [fs EXCEPT ![output_path] = left]
              /\ stdout' = Append(stdout, Msg("error_writing", <<>>))
              /\ success' = FALSE
    /\ pc' = "returned"
    /\ UNCHANGED <<call, argv, files, output_file, context, exitStatus>>

(* a driver that exits 0 whatever render_resume returned *)
ExitCodeAlwaysZero(ok) == 0

(* 0 if success else 1 *)
ExitCode(ok) == IF ok THEN 0 ELSE 1

(* sys.exit(0 if success else 1) *)
Exit ==
    /\ pc = "returned"
    /\ exitStatus' = ExitCode(success)
    /\ pc' = "done"
    /\ UNCHANGED <<call, argv, files, fs, output_file, context, stdout, attempted, success>>

----------------------------------------------------------------------------
(* The inputs of a run, and the specifications                              *)

AllAbsent == [k \in ConfigKeys |-> AbsentFile]

SubkeyOf(key) ==
    IF \E i \in DOMAIN promotions : promotions[i].source = key
    THEN (CHOOSE r \in {promotions[i] : i \in DOMAIN promotions} : r.source = key).subkey
    ELSE "name"

(* a key the document may hold beside, or instead of, the one its rule names *)
OtherKey(key) == IF key = "skills_data" THEN "skills" ELSE "meta"

(* what a config file may hold: nothing (no file), invalid JSON, a JSON      *)
(* value that is no object, or an object with or without its rule's subkey  *)
RichFiles(key) ==
    {AbsentFile, MalformedFile, JVal("null"), JVal("[]"), JVal("[x]"), JObj({}),
     JObj({<<OtherKey(key), "[x]">>}),
     JObj({<<SubkeyOf(key), "[x]">>, <<OtherKey(key), "[x]">>})}
    \cup {JObj({<<SubkeyOf(key), t>>}) : t \in Tokens}

BasicFiles(key) ==
    {AbsentFile, MalformedFile, JObj({<<OtherKey(key), "[x]">>}),
     JObj({<<SubkeyOf(key), "[x]">>})}

PlainFiles(key) == {AbsentFile, JObj({<<SubkeyOf(key), "[x]">>})}

(* the data directories of the configuration runs: every shape for the      *)
(* required entities                                                        *)
ConfigDirs ==
    [profile : {AbsentFile, MalformedFile, JVal("null"), JVal("[]"),
                JObj({}), JObj({<<"name", "[x]">>})},
     experience_data : RichFiles("experience_data"),
     projects_data : BasicFiles("projects_data"),
     skills_data : BasicFiles("skills_data"),
     education_data : RichFiles("education_data"),
     contact : {AbsentFile, MalformedFile, JObj({<<"name", "[x]">>})},
     seo : PlainFiles("seo")]

IdlePipe ==
    /\ pc = "idle"
    /\ argv = NoFlag
    /\ files = AllAbsent
    /\ fs = [p \in Paths |-> "absent"]
    /\ output_file = OUTPUT_FILE
    /\ context = {}
    /\ stdout = <<>>
    /\ attempted = {}
    /\ success = FALSE
    /\ exitStatus = -1

InitFilters == call = NoCall /\ IdlePipe

InitRun ==
    /\ call = NoCall
    /\ pc = "main"
    /\ output_file = OUTPUT_FILE
    /\ context = {}
    /\ stdout = <<>>
    /\ attempted = {}
    /\ success = FALSE
    /\ exitStatus = -1

(* a run of the whole pipeline: any --output flag, any earlier content of   *)
(* the candidate output paths                                               *)
Init ==
    /\ InitRun
    /\ argv \in {NoFlag} \cup {Flag(p) : p \in Paths}
    /\ fs \in [Paths -> {"absent", "old"}]
    /\ files \in
         [profile : {AbsentFile, MalformedFile, JObj({<<"name", "[x]">>})},
          experience_data : {AbsentFile, MalformedFile, JVal("null"),
                             JObj({<<"experience", "[]">>}),
                             JObj({<<"experience", "[x]">>})},
          projects_data : PlainFiles("projects_data"),
          skills_data : PlainFiles("skills_data"),
          education_data : {AbsentFile, MalformedFile, JObj({<<"education", "[x]">>})},
          contact : {AbsentFile, MalformedFile},
          seo : {AbsentFile}]

(* a run over every shape of data directory, with the default output *)
InitConfig ==
    /\ InitRun
    /\ argv = NoFlag
    /\ fs = [p \in Paths |-> "absent"]
    /\ files \in ConfigDirs

Next ==
    \/ Main
    \/ LoadConfigs
    \/ Validate
    \/ GetTemplate
    \/ Render
    \/ WriteOutput
    \/ Exit

NextUsername ==
    \/ CallGithubUsername
    \/ CallLinkedinUsername

Spec == Init /\ [][Next]_vars
SpecConfig == InitConfig /\ [][Next]_vars
SpecEscape == InitFilters /\ [][CallLatexEscape]_vars
SpecUsername == InitFilters /\ [][NextUsername]_vars
SpecJoinTech == InitFilters /\ [][CallJoinTech]_vars
SpecDuration == InitFilters /\ [][CallFormatDuration]_vars

----------------------------------------------------------------------------
(* Properties of the pipeline                                               *)

Kinds(log) == {log[i].kind : i \in DOMAIN log}
ErrorKinds ==
    {"error_json", "error_missing", "error_loading_template",
     "error_rendering_template", "error_writing"}

(* the path the user asked for: the --output flag, or resume.tex at the     *)
(* project root when it is omitted                                          *)
RequestedPath ==
    IF argv.given THEN argv.path ELSE [dir |-> "root", name |-> "resume.tex"]

(* the required keys that are absent from the context or hold an empty      *)
(* value (an empty object, an empty list, null)                             *)
EmptyValue(v) == v \in {JObj({}), JVal("[]"), JVal("null")}
AbsentOrEmpty(ctx) ==
    {k \in {"profile", "experience", "education"} :
        \A m \in ctx : m[1] = k => EmptyValue(m[2])}

RunFailed == pc = "done" /\ exitStatus # 0
FullyWritten == \E p \in Paths : fs[p] = "rendered"

(* C1: a run that ends in failure leaves every candidate output file as it  *)
(* was before the run: an existing file keeps its old content, a file that  *)
(* did not exist is not created, and no empty or partial file is left.      *)
C1_FailureLeavesOutputUntouched ==
    RunFailed => \A p \in Paths : fs[p] \in {"absent", "old"}

(* C2: the exit status is 0 exactly when the output was fully written,      *)
(* which happens only with every config parsed, the required entities       *)
(* present and the template loaded and rendered; it is 1 whenever an error  *)
(* was reported or the run otherwise failed; the success message is never   *)
(* printed after a failed write.                                            *)
C2_ExitStatusReportsOutcome ==
    pc = "done" =>
        /\ exitStatus \in {0, 1}
        /\ exitStatus = 0 <=> FullyWritten
        /\ exitStatus = 0 =>
              /\ \A k \in ConfigKeys : files[k].kind # "malformed"
              /\ AbsentOrEmpty(context) = {}
              /\ {"get_template", "render", "write"} \subseteq attempted
              /\ Kinds(stdout) \cap (ErrorKinds \cup {"traceback"}) = {}
        /\ Kinds(stdout) \cap (ErrorKinds \cup {"traceback"}) # {} => exitStatus = 1
        /\ "success" \in Kinds(stdout) <=> exitStatus = 0

C2_Witness ==
    /\ pc = "done"
    /\ exitStatus = 1
    /\ "error_writing" \in Kinds(stdout)
    /\ \E p \in Paths : fs[p] = "partial"

(* C3: a successful run writes the rendered text to the file at the path    *)
(* given as --output (resume.tex at the project root when omitted).         *)
C3_OutputWrittenAtRequestedPath ==
    (pc = "done" /\ exitStatus = 0) => fs[RequestedPath] = "rendered"

MissingReports == {i \in DOMAIN stdout : stdout[i].kind = "error_missing"}

(* C4: the run fails at validation exactly when one of profile, experience, *)
(* education is absent from the context or falsy, and then one message      *)
(* names exactly those keys, and the run returns failure there.             *)
C4_ValidationReportsAllMissing ==
    "validate" \in attempted =>
        LET bad == AbsentOrEmpty(context)
        IN  /\ MissingReports # {} <=> bad # {}
            /\ Cardinality(MissingReports) <= 1
            /\ \A i \in MissingReports :
                  /\ {stdout[i].arg[j] : j \in DOMAIN stdout[i].arg} = bad
                  /\ Len(stdout[i].arg) = Cardinality(bad)
                  /\ i = Len(stdout)
                  /\ pc \in {"returned", "done"}
                  /\ ~success
            /\ bad = {} => pc \in {"get_template", "render", "write", "returned", "done"}
                           /\ "loading_template" \in Kinds(stdout)

C4_Witness ==
    /\ pc = "returned"
    /\ ~HasKey(context, "profile")
    /\ HasKey(context, "experience") /\ Get(context, "experience") = JVal("[]")
    /\ HasKey(context, "education") /\ Get(context, "education") = JVal("[x]")
    /\ \E i \in MissingReports : stdout[i].arg = <<"profile", "experience">>

LaterStages == {"get_template", "render", "write"}

(* C5: template loading and rendering start only after every present config *)
(* file has parsed and the required entities have been validated, and the   *)
(* write starts only after the render has succeeded; a run with an invalid  *)
(* config file or a missing required entity never loads, renders or writes. *)
C5_StageOrdering ==
    /\ attempted \cap LaterStages # {} =>
          /\ {"load_configs", "validate"} \subseteq attempted
          /\ \A k \in ConfigKeys : files[k].kind # "malformed"
          /\ AbsentOrEmpty(context) = {}
    /\ "render" \in attempted => "get_template" \in attempted
                                 /\ "error_loading_template" \notin Kinds(stdout)
    /\ "write" \in attempted =>
          /\ "render" \in attempted
          /\ "writing_output" \in Kinds(stdout)
          /\ Kinds(stdout) \cap {"error_rendering_template", "traceback"} = {}
    /\ (\E k \in ConfigKeys : files[k].kind = "malformed") => attempted \cap LaterStages = {}
    /\ ("validate" \in attempted /\ AbsentOrEmpty(context) # {}) => attempted \cap LaterStages = {}
    /\ \A p \in Paths : fs[p] \notin {"absent", "old"} => "write" \in attempted

C5_Witness ==
    /\ pc = "done"
    /\ attempted = {"load_configs", "validate", "get_template", "render", "write"}
    /\ exitStatus = 0

C5_WitnessMalformed ==
    /\ pc = "done"
    /\ files["contact"].kind = "malformed"
    /\ files["profile"].kind = "obj"
    /\ attempted = {"load_configs"}

ContextBuilt == "validate" \in attempted \/ pc = "validate"

(* C6: the context holds a promoted key exactly when its source document    *)
(* was loaded and is an object with the rule's subkey, its value is that    *)
(* subkey's value, a loaded document is stored under its logical name, and  *)
(* an entity whose file is missing has no key at all.                       *)
C6_PromotionRules ==
    ContextBuilt =>
        /\ \A r \in { <<"experience_data", "experience", "experience">>,
                      <<"projects_data", "projects", "projects">>,
                      <<"skills_data", "categories", "skills">>,
                      <<"education_data", "education", "education">> } :
              LET src == files[r[1]]
                  has == src.kind = "obj" /\ \E m \in src.doc : m[1] = r[2]
              IN  /\ (\E m \in context : m[1] = r[3]) <=> has
                  /\ has => \A m \in context : m[1] = r[3] =>
                                \E d \in src.doc : d[1] = r[2] /\ m[2] = JVal(d[2])
        /\ \A k \in ConfigKeys :
              IF files[k].kind = "absent"
              THEN \A m \in context : m[1] # k
              ELSE \E m \in context : m[1] = k /\ m[2] = files[k]
        /\ \A m, n \in context : m[1] = n[1] => m = n

C6_Witness ==
    /\ ContextBuilt
    /\ files["projects_data"].kind = "absent"
    /\ files["skills_data"].kind = "absent"
    /\ {m[1] : m \in context} =
          {"profile", "experience_data", "education_data", "experience", "education"}

----------------------------------------------------------------------------
(* Properties of the filters                                                *)

(* the escape sequence the replacement table gives for one character *)
EscapeOf(c) ==
    IF \E i \in DOMAIN replacements : replacements[i][1] = c
    THEN replacements[CHOOSE i \in DOMAIN replacements : replacements[i][1] = c][2]
    ELSE <<c>>

(* C7: the result of latex_escape is the concatenation of the escape        *)
(* sequences of the input's characters, each taken on its own, so that      *)
(* every inserted sequence appears intact; empty input gives empty output.  *)
C7_EscapeIsCharacterwise ==
    call.fn = "latex_escape" =>
        call.ret = Concat([i \in DOMAIN call.text |-> EscapeOf(call.text[i])])

AllDigits(s) == s # <<>> /\ \A i \in DOMAIN s : s[i] \in {Digits[d] : d \in DOMAIN Digits}

(* the text before the first "-" and the text after it, if there is one *)
DashAt(d) == {i \in DOMAIN d : d[i] = "-"}
YearPart(d) == IF DashAt(d) = {} THEN d ELSE SubSeq(d, 1, (CHOOSE i \in DashAt(d) : \A j \in DashAt(d) : i <= j) - 1)
MonthPart(d) ==
    IF DashAt(d) = {} THEN <<>>
    ELSE SubSeq(d, (CHOOSE i \in DashAt(d) : \A j \in DashAt(d) : i <= j) + 1, Len(d))

TwoDigitMonths ==
    [m \in 1..12 |-> <<Digits[(m \div 10) + 1], Digits[(m % 10) + 1]>>]

(* YYYY-MM with a numeric year and a numeric month in 1..12 *)
WellFormedDate(d) ==
    /\ Len(d) = 7
    /\ d[5] = "-"
    /\ AllDigits(YearPart(d))
    /\ \E m \in 1..12 : MonthPart(d) = TwoDigitMonths[m]

(* a non-numeric year or month, or a numeric month outside 1..12 *)
MalformedDate(d) ==
    \/ ~AllDigits(YearPart(d))
    \/ ~AllDigits(MonthPart(d))
    \/ \A m \in 1..12 : DecimalValue(MonthPart(d), 0) # m

DateLabel(d) ==
    months[CHOOSE m \in 1..12 : MonthPart(d) = TwoDigitMonths[m]] \o <<" ">> \o YearPart(d)

EndGiven(e) == e.t = "str" /\ e.s # <<>>

(* C8: with well-formed dates format_duration returns "Mon Year -- End",    *)
(* End being the end date's label or Present; with a malformed date         *)
(* (non-numeric year or month, month outside 1..12) the call raises.        *)
C8_FormatDurationContract ==
    call.fn = "format_duration" =>
        /\ (WellFormedDate(call.start_date)
              /\ (EndGiven(call.end_date) => WellFormedDate(call.end_date.s)))
           => call.ret =
                [err |-> "none",
                 val |-> DateLabel(call.start_date) \o <<" ","-","-"," ">> \o
                         (IF EndGiven(call.end_date) THEN DateLabel(call.end_date.s)
                          ELSE <<"P","r","e","s","e","n","t">>)]
        /\ (MalformedDate(call.start_date)
              \/ (EndGiven(call.end_date) /\ MalformedDate(call.end_date.s)))
           => call.ret.err # "none"

(* the names a technology list contributes, in order: a plain string        *)
(* itself, a record its name; the elements in skipped are left out          *)
RECURSIVE JoinedNames(_, _)
JoinedNames(items, skipped) ==
    IF items = <<>> THEN <<>>
    ELSE LET e == Head(items)
             rest == JoinedNames(Tail(items), skipped)
         IN  IF e \in skipped THEN rest
             ELSE LET n == IF e.t = "dict" THEN e.name.s ELSE e.s
                  IN  <<n>> \o rest

RECURSIVE CommaJoined(_)
CommaJoined(ns) ==
    IF ns = <<>> THEN <<>>
    ELSE IF Len(ns) = 1 THEN ns[1]
    ELSE ns[1] \o <<",", " ">> \o CommaJoined(Tail(ns))

(* a record with no name field, a null name or an empty name *)
NamelessRecord(e) ==
    e.t = "dict" /\ (~e.has_name \/ e.name.t = "none" \/ e.name.s = <<>>)

EmptyString(e) == e.t = "str" /\ e.s = <<>>
NamelessOrEmpty(e) == NamelessRecord(e) \/ EmptyString(e)

ItemsOf(technologies) == IF technologies.t = "none" THEN <<>> ELSE technologies.items

AnchorOf(fn) == IF fn = "github_username" THEN <<"g","i","t","h","u","b",".","c","o","m","/">> ELSE <<"l","i","n","k","e","d","i","n",".","c","o","m","/","i","n","/">>

(* the positions right after an occurrence of the anchor *)
AfterAnchor(url, anchor) ==
    {k \in (Len(anchor) + 1)..(Len(url) + 1) :
        SubSeq(url, k - Len(anchor), k - 1) = anchor}

(* the text from position k up to the next "/" or the end *)
SegmentFrom(url, k) ==
    LET stops == {j \in k..Len(url) : url[j] = "/"} \cup {Len(url) + 1}
    IN  SubSeq(url, k, (CHOOSE j \in stops : \A i \in stops : j <= i) - 1)

Least(S) == CHOOSE k \in S : \A j \in S : k <= j

UsernameCall == call.fn \in {"github_username", "linkedin_username"}

(* C10 as stated: if the anchor occurs the result is the segment right      *)
(* after it, up to the next "/" or the end; otherwise the input unchanged.  *)
C10_SegmentAfterAnchor ==
    UsernameCall =>
        LET after == AfterAnchor(call.url, AnchorOf(call.fn))
        IN  call.ret = IF after = {} THEN call.url
                       ELSE SegmentFrom(call.url, Least(after))

(* C10 amended: if some occurrence of the anchor is followed by a character *)
(* other than "/", the result is the segment after the first such           *)
(* occurrence, up to the next "/" or the end; otherwise (no anchor, or      *)
(* every anchor at the end or followed by "/") the input is returned        *)
(* unchanged.                                                               *)
C10_NonEmptySegmentAfterAnchor ==
    UsernameCall =>
        LET after == {k \in AfterAnchor(call.url, AnchorOf(call.fn)) :
                         SegmentFrom(call.url, k) # <<>>}
        IN  call.ret = IF after = {} THEN call.url
                       ELSE SegmentFrom(call.url, Least(after))

C10_Witness ==
    /\ call.fn = "github_username"
    /\ call.url = <<"h","t","t","p","s",":","/","/">> \o <<"g","i","t","h","u","b",".","c","o","m","/">> \o <<"a","l">>
    /\ call.ret = <<"a","l">>

C10_WitnessSlash ==
    /\ call.fn = "linkedin_username"
    /\ call.url = <<"l","i","n","k","e","d","i","n",".","c","o","m","/","i","n","/">> \o <<"a","l">> \o <<"/">>
    /\ call.ret = <<"a","l">>

====
